---- MODULE Spec2Model ----
(***************************************************************************)
(* Model of connectx7_mcp/server.py: the on-disk documentation cache, the  *)
(* fetch pipeline and the tools built on it (fetch_nvidia_docs,            *)
(* search_nvidia_docs, clear_doc_cache).                                   *)
(*                                                                         *)
(* Text that the code inspects character by character (topic names, the    *)
(* query, markdown content) is a sequence of one-character strings.  URLs, *)
(* registry keys and cache file names are only compared and concatenated,  *)
(* and are TLA+ strings.  Time is counted in hours.                        *)
(***************************************************************************)
EXTENDS Integers, Sequences, FiniteSets, TLC

VARIABLES store, now, last, written, inv

vars == <<store, now, last, written, inv>>

(***************************************************************************)
(* Bounds of the model.                                                    *)
(***************************************************************************)
\* The clock advances at most MaxTicks times.
MaxTicks == 2

\* Hours by which one step of the clock advances it.
TickSteps == {12}

(***************************************************************************)
(* Program constants.                                                      *)
(***************************************************************************)
CACHE_HOURS == 24

\* results[:10] in search_nvidia_docs
MaxDocs == 10

\* paras[:2] in search_nvidia_docs
MaxParas == 2

\* m[:500] in search_nvidia_docs
TruncLen == 500

\* The registry, in the order of the dict literal (dicts keep insertion order).
DOC_SOURCES ==
  << [ topic |-> "connectx7",
       base  |-> "https://docs.nvidia.com/networking/display/ConnectX7VPI",
       name  |-> "ConnectX-7 User Manual",
       pages |-> << "", "/Introduction", "/Hardware+Installation",
                    "/Driver+Installation", "/Firmware+Update",
                    "/Port+Configuration", "/Troubleshooting",
                    "/Specifications", "/Performance+Tuning" >> ],
     [ topic |-> "doca",
       base  |-> "https://docs.nvidia.com/doca/sdk",
       name  |-> "DOCA SDK",
       pages |-> << "", "/doca-overview/index.html",
                    "/doca-installation-guide-for-linux/index.html",
                    "/rdma-over-converged-ethernet/index.html" >> ],
     [ topic |-> "vma",
       base  |-> "https://docs.nvidia.com/networking/display/VMAv98",
       name  |-> "VMA User Manual",
       pages |-> << "", "/Introduction", "/Installation", "/Configuration",
                    "/API", "/Performance+Tuning", "/Troubleshooting" >> ],
     [ topic |-> "rdma",
       base  |-> "https://docs.nvidia.com/networking/display/RDMAAwareProgrammingv17",
       name  |-> "RDMA Programming Guide",
       pages |-> << "", "/RDMA-Aware+Programming+Overview",
                    "/RDMA+Verbs+API", "/Programming+Examples+Using+IBV+Verbs" >> ],
     [ topic |-> "mlnx_ofed",
       base  |-> "https://docs.nvidia.com/networking/display/MLNXOFEDv24100700",
       name  |-> "MLNX_OFED Documentation",
       pages |-> << "", "/Introduction", "/Installation", "/Performance+Tuning" >> ],
     [ topic |-> "mlx5_kernel",
       base  |-> "https://www.kernel.org/doc/html/latest/networking/device_drivers/ethernet/mellanox/mlx5",
       name  |-> "mlx5 Kernel Driver",
       pages |-> << "/index.html", "/kconfig.html", "/tracepoints.html",
                    "/counters.html" >> ],
     [ topic |-> "dpdk_mlx5",
       base  |-> "https://doc.dpdk.org/guides/platform",
       name  |-> "DPDK mlx5 Driver",
       pages |-> << "/mlx5.html" >> ] >>

\* DOC_SOURCES.keys(), in order
TopicKeys == [i \in 1..Len(DOC_SOURCES) |-> DOC_SOURCES[i].topic]

\* topic in DOC_SOURCES
InRegistry(topic) == \E i \in 1..Len(DOC_SOURCES) : DOC_SOURCES[i].topic = topic

\* DOC_SOURCES[topic]
Source(topic) ==
  DOC_SOURCES[CHOOSE i \in 1..Len(DOC_SOURCES) : DOC_SOURCES[i].topic = topic]

\* f"{src['base']}{page}"
UrlOf(src, page) == src.base \o page

\* Every URL the registry names.
RegistryUrls ==
  UNION { { UrlOf(DOC_SOURCES[i], DOC_SOURCES[i].pages[j]) :
              j \in 1..Len(DOC_SOURCES[i].pages) } : i \in 1..Len(DOC_SOURCES) }

(***************************************************************************)
(* Text helpers: str.lower, str.replace, "in", str.split, re.sub, slicing. *)
(***************************************************************************)
\* One character of str.lower() (ASCII letters; every other character is kept).
LowerChar(c) ==
  CASE c = "A" -> "a" [] c = "B" -> "b" [] c = "C" -> "c" [] c = "D" -> "d"
    [] c = "E" -> "e" [] c = "F" -> "f" [] c = "G" -> "g" [] c = "H" -> "h"
    [] c = "I" -> "i" [] c = "J" -> "j" [] c = "K" -> "k" [] c = "L" -> "l"
    [] c = "M" -> "m" [] c = "N" -> "n" [] c = "O" -> "o" [] c = "P" -> "p"
    [] c = "Q" -> "q" [] c = "R" -> "r" [] c = "S" -> "s" [] c = "T" -> "t"
    [] c = "U" -> "u" [] c = "V" -> "v" [] c = "W" -> "w" [] c = "X" -> "x"
    [] c = "Y" -> "y" [] c = "Z" -> "z" [] OTHER -> c

\* s.lower()
Lower(s) == [i \in 1..Len(s) |-> LowerChar(s[i])]

\* s.replace(a, b) for single characters a, b
Replace(s, a, b) == [i \in 1..Len(s) |-> IF s[i] = a THEN b ELSE s[i]]

\* The TLA+ string spelled by a sequence of characters.
RECURSIVE Str(_)
Str(s) == IF s = <<>> THEN "" ELSE Head(s) \o Str(Tail(s))

\* needle in hay
In(needle, hay) ==
  \E i \in 0..(Len(hay) - Len(needle)) :
     SubSeq(hay, i + 1, i + Len(needle)) = needle

\* s.split("\n\n"): cut at each blank line, scanning from the left, the
\* separators not overlapping.
RECURSIVE Split(_)
Split(s) ==
  LET cuts == { i \in 1..(Len(s) - 1) : s[i] = "\n" /\ s[i + 1] = "\n" }
  IN  IF cuts = {}
      THEN << s >>
      ELSE LET i == CHOOSE c \in cuts : \A d \in cuts : c <= d
           IN  << SubSeq(s, 1, i - 1) >> \o Split(SubSeq(s, i + 2, Len(s)))

\* re.sub(r'\n{3,}', '\n\n', s): of every run of newlines the first two are
\* kept, so a newline is dropped iff the two characters before it are
\* newlines.  CollapseRange gives the characters of s[lo..hi] that are kept.
RECURSIVE CollapseRange(_, _, _)
CollapseRange(s, lo, hi) ==
  IF lo > hi THEN << >>
  ELSE IF lo = hi
       THEN IF s[lo] = "\n" /\ lo > 2 /\ s[lo - 1] = "\n" /\ s[lo - 2] = "\n"
            THEN << >>
            ELSE << s[lo] >>
       ELSE LET mid == (lo + hi) \div 2
            IN  CollapseRange(s, lo, mid) \o CollapseRange(s, mid + 1, hi)

\* The documents of the model (markdown as md() gives it).
\* Markdown without the query words.
RawPlain == << "i", "n", "t", "r", "o" >>

\* "QP a\n\n\n\nqp b\n\nxx\n\nQp c": three paragraphs holding "qp", and a run
\* of four newlines for re.sub to collapse.
RawQP ==
  << "Q", "P", " ", "a", "\n", "\n", "\n", "\n", "q", "p", " ", "b", "\n", "\n",
     "x", "x", "\n", "\n", "Q", "p", " ", "c" >>

\* "xx\n\nIb v\n\nyy": one paragraph holding "ib".
RawOne == << "x", "x", "\n", "\n", "I", "b", " ", "v", "\n", "\n", "y", "y" >>

\* "aa\n\n" and a paragraph of TruncLen + 2 characters that ends in " Ib".
RawLong ==
  << "a", "a", "\n", "\n" >>
  \o [ i \in 1..(TruncLen + 2) |->
         IF i < TruncLen THEN "x"
         ELSE IF i = TruncLen THEN " "
         ELSE IF i = TruncLen + 1 THEN "I" ELSE "b" ]

RawDocs == { RawPlain, RawQP, RawOne, RawLong }

\* Collapse over the documents of the model, evaluated once.
CollapseTable == [ s \in RawDocs |-> CollapseRange(s, 1, Len(s)) ]

Collapse(s) ==
  IF s \in RawDocs THEN CollapseTable[s] ELSE CollapseRange(s, 1, Len(s))

\* The cut at 500 characters without the "..." after it.
Truncated_no_marker(m) ==
  IF Len(m) > TruncLen THEN SubSeq(m, 1, TruncLen) ELSE m

\* m[:500] + "..." if len(m) > 500 else m
Truncated(m) ==
  IF Len(m) > TruncLen THEN SubSeq(m, 1, TruncLen) \o << ".", ".", "." >> ELSE m

\* xs[:n]
Prefix(xs, n) == SubSeq(xs, 1, IF Len(xs) < n THEN Len(xs) ELSE n)

(***************************************************************************)
(* The cache store: CACHE_DIR as a function from file name to file.  A     *)
(* file either parses as JSON, and then holds a dict (a function from      *)
(* field names to values), or it does not.  A timestamp is the ISO text of *)
(* an hour, or text that is no ISO date.                                   *)
(***************************************************************************)
\* hashlib.md5(url.encode()).hexdigest()[:12] + ".json", tabulated for the
\* URLs of the model.
CachePathTable ==
     ("https://docs.nvidia.com/networking/display/ConnectX7VPI"
       :> "3563e886c94f.json")
  @@ ("https://docs.nvidia.com/networking/display/ConnectX7VPI/Introduction"
       :> "3140908465a5.json")
  @@ ("https://docs.nvidia.com/networking/display/ConnectX7VPI/Hardware+Installation"
       :> "5cb9d7f781b1.json")
  @@ ("https://docs.nvidia.com/networking/display/ConnectX7VPI/Driver+Installation"
       :> "35c770938575.json")
  @@ ("https://docs.nvidia.com/networking/display/ConnectX7VPI/Firmware+Update"
       :> "e24ee08f24d0.json")
  @@ ("https://docs.nvidia.com/networking/display/ConnectX7VPI/Port+Configuration"
       :> "1bcae4ddf24b.json")
  @@ ("https://docs.nvidia.com/networking/display/ConnectX7VPI/Troubleshooting"
       :> "322235c5c8c5.json")
  @@ ("https://docs.nvidia.com/networking/display/ConnectX7VPI/Specifications"
       :> "a248f20febc2.json")
  @@ ("https://docs.nvidia.com/networking/display/ConnectX7VPI/Performance+Tuning"
       :> "5a22b63572e9.json")
  @@ ("https://docs.nvidia.com/doca/sdk"
       :> "068a4300de64.json")
  @@ ("https://docs.nvidia.com/doca/sdk/doca-overview/index.html"
       :> "a1b8108f7ca7.json")
  @@ ("https://docs.nvidia.com/doca/sdk/doca-installation-guide-for-linux/index.html"
       :> "0c8000cda2e3.json")
  @@ ("https://docs.nvidia.com/doca/sdk/rdma-over-converged-ethernet/index.html"
       :> "5ee81b89766b.json")
  @@ ("https://docs.nvidia.com/networking/display/VMAv98"
       :> "ca0dd38c5f10.json")
  @@ ("https://docs.nvidia.com/networking/display/VMAv98/Introduction"
       :> "3fcb75398e62.json")
  @@ ("https://docs.nvidia.com/networking/display/VMAv98/Installation"
       :> "75e37a358224.json")
  @@ ("https://docs.nvidia.com/networking/display/VMAv98/Configuration"
       :> "ebbf32c0a3f7.json")
  @@ ("https://docs.nvidia.com/networking/display/VMAv98/API"
       :> "3bced7d5efa5.json")
  @@ ("https://docs.nvidia.com/networking/display/VMAv98/Performance+Tuning"
       :> "ddbc3c8a02d9.json")
  @@ ("https://docs.nvidia.com/networking/display/VMAv98/Troubleshooting"
       :> "42abd4b817b9.json")
  @@ ("https://docs.nvidia.com/networking/display/RDMAAwareProgrammingv17"
       :> "9764ed676740.json")
  @@ ("https://docs.nvidia.com/networking/display/RDMAAwareProgrammingv17/RDMA-Aware+Programming+Overview"
       :> "417089965ee3.json")
  @@ ("https://docs.nvidia.com/networking/display/RDMAAwareProgrammingv17/RDMA+Verbs+API"
       :> "a1dc74975111.json")
  @@ ("https://docs.nvidia.com/networking/display/RDMAAwareProgrammingv17/Programming+Examples+Using+IBV+Verbs"
       :> "1d7ba3f3a40e.json")
  @@ ("https://docs.nvidia.com/networking/display/MLNXOFEDv24100700"
       :> "9c0c428f786a.json")
  @@ ("https://docs.nvidia.com/networking/display/MLNXOFEDv24100700/Introduction"
       :> "27d9f5a870fc.json")
  @@ ("https://docs.nvidia.com/networking/display/MLNXOFEDv24100700/Installation"
       :> "7e09e44ec029.json")
  @@ ("https://docs.nvidia.com/networking/display/MLNXOFEDv24100700/Performance+Tuning"
       :> "7dfdb96362c8.json")
  @@ ("https://www.kernel.org/doc/html/latest/networking/device_drivers/ethernet/mellanox/mlx5/index.html"
       :> "555f8a3f9aa2.json")
  @@ ("https://www.kernel.org/doc/html/latest/networking/device_drivers/ethernet/mellanox/mlx5/kconfig.html"
       :> "c370e483d95c.json")
  @@ ("https://www.kernel.org/doc/html/latest/networking/device_drivers/ethernet/mellanox/mlx5/tracepoints.html"
       :> "34a6f8d09eb3.json")
  @@ ("https://www.kernel.org/doc/html/latest/networking/device_drivers/ethernet/mellanox/mlx5/counters.html"
       :> "0773e8e69d18.json")
  @@ ("https://doc.dpdk.org/guides/platform/mlx5.html"
       :> "3a0062277734.json")
  @@ ("https://docs.nvidia.com/networking/display/RDMAAwareProgrammingv17/mlx5.html"
       :> "2cfc97183335.json")
  @@ ("https://doc.dpdk.org/guides/platform"
       :> "7efab43df0c8.json")

LastSegmentTable ==
     ("https://docs.nvidia.com/networking/display/ConnectX7VPI"
       :> "ConnectX7VPI")
  @@ ("https://docs.nvidia.com/networking/display/ConnectX7VPI/Introduction"
       :> "Introduction")
  @@ ("https://docs.nvidia.com/networking/display/ConnectX7VPI/Hardware+Installation"
       :> "Hardware+Installation")
  @@ ("https://docs.nvidia.com/networking/display/ConnectX7VPI/Driver+Installation"
       :> "Driver+Installation")
  @@ ("https://docs.nvidia.com/networking/display/ConnectX7VPI/Firmware+Update"
       :> "Firmware+Update")
  @@ ("https://docs.nvidia.com/networking/display/ConnectX7VPI/Port+Configuration"
       :> "Port+Configuration")
  @@ ("https://docs.nvidia.com/networking/display/ConnectX7VPI/Troubleshooting"
       :> "Troubleshooting")
  @@ ("https://docs.nvidia.com/networking/display/ConnectX7VPI/Specifications"
       :> "Specifications")
  @@ ("https://docs.nvidia.com/networking/display/ConnectX7VPI/Performance+Tuning"
       :> "Performance+Tuning")
  @@ ("https://docs.nvidia.com/doca/sdk"
       :> "sdk")
  @@ ("https://docs.nvidia.com/doca/sdk/doca-overview/index.html"
       :> "index.html")
  @@ ("https://docs.nvidia.com/doca/sdk/doca-installation-guide-for-linux/index.html"
       :> "index.html")
  @@ ("https://docs.nvidia.com/doca/sdk/rdma-over-converged-ethernet/index.html"
       :> "index.html")
  @@ ("https://docs.nvidia.com/networking/display/VMAv98"
       :> "VMAv98")
  @@ ("https://docs.nvidia.com/networking/display/VMAv98/Introduction"
       :> "Introduction")
  @@ ("https://docs.nvidia.com/networking/display/VMAv98/Installation"
       :> "Installation")
  @@ ("https://docs.nvidia.com/networking/display/VMAv98/Configuration"
       :> "Configuration")
  @@ ("https://docs.nvidia.com/networking/display/VMAv98/API"
       :> "API")
  @@ ("https://docs.nvidia.com/networking/display/VMAv98/Performance+Tuning"
       :> "Performance+Tuning")
  @@ ("https://docs.nvidia.com/networking/display/VMAv98/Troubleshooting"
       :> "Troubleshooting")
  @@ ("https://docs.nvidia.com/networking/display/RDMAAwareProgrammingv17"
       :> "RDMAAwareProgrammingv17")
  @@ ("https://docs.nvidia.com/networking/display/RDMAAwareProgrammingv17/RDMA-Aware+Programming+Overview"
       :> "RDMA-Aware+Programming+Overview")
  @@ ("https://docs.nvidia.com/networking/display/RDMAAwareProgrammingv17/RDMA+Verbs+API"
       :> "RDMA+Verbs+API")
  @@ ("https://docs.nvidia.com/networking/display/RDMAAwareProgrammingv17/Programming+Examples+Using+IBV+Verbs"
       :> "Programming+Examples+Using+IBV+Verbs")
  @@ ("https://docs.nvidia.com/networking/display/MLNXOFEDv24100700"
       :> "MLNXOFEDv24100700")
  @@ ("https://docs.nvidia.com/networking/display/MLNXOFEDv24100700/Introduction"
       :> "Introduction")
  @@ ("https://docs.nvidia.com/networking/display/MLNXOFEDv24100700/Installation"
       :> "Installation")
  @@ ("https://docs.nvidia.com/networking/display/MLNXOFEDv24100700/Performance+Tuning"
       :> "Performance+Tuning")
  @@ ("https://www.kernel.org/doc/html/latest/networking/device_drivers/ethernet/mellanox/mlx5/index.html"
       :> "index.html")
  @@ ("https://www.kernel.org/doc/html/latest/networking/device_drivers/ethernet/mellanox/mlx5/kconfig.html"
       :> "kconfig.html")
  @@ ("https://www.kernel.org/doc/html/latest/networking/device_drivers/ethernet/mellanox/mlx5/tracepoints.html"
       :> "tracepoints.html")
  @@ ("https://www.kernel.org/doc/html/latest/networking/device_drivers/ethernet/mellanox/mlx5/counters.html"
       :> "counters.html")
  @@ ("https://doc.dpdk.org/guides/platform/mlx5.html"
       :> "mlx5.html")
  @@ ("https://docs.nvidia.com/networking/display/RDMAAwareProgrammingv17/mlx5.html"
       :> "mlx5.html")
  @@ ("https://doc.dpdk.org/guides/platform"
       :> "platform")

\* CACHE_DIR / f"{md5(url)[:12]}.json"
cache_path(url) == CachePathTable[url]

\* url.split("/")[-1]
LastSegment(url) == LastSegmentTable[url]

\* datetime.isoformat()
isoformat(t) == [iso |-> TRUE, h |-> t]

\* Text in "ts" that datetime.fromisoformat rejects with ValueError.
BadTs == [iso |-> FALSE, h |-> 0]

\* json.dumps(data, indent=2), as written by write_text
json_dumps(data) == [parses |-> TRUE, obj |-> data]

\* A file json.loads rejects with JSONDecodeError (cut short, or garbled).
NotJson == [parses |-> FALSE]

\* The file open(path, "w") leaves before anything is written to it: it
\* exists and is empty, and json.loads rejects it.
EmptyFile == [parses |-> FALSE, size |-> 0]

\* The length of a file, counted in the characters of the title and the
\* content it holds (url and ts have the same length in every record of one
\* URL).
Size(file) ==
  IF file.parses THEN Len(file.obj.title) + Len(file.obj.content)
  ELSE file.size

\* The file after json.dumps(data) is written at offset 0 of a file that
\* holds old: the new text alone when it is at least as long as the old,
\* otherwise the new text followed by the end of the old, which json.loads
\* rejects ("Extra data").
Overlay(old, data) ==
  IF Size(old) <= Size(json_dumps(data)) THEN json_dumps(data)
  ELSE [parses |-> FALSE, size |-> Size(old)]

\* cache_valid with the comparison age <= timedelta(hours=CACHE_HOURS).
cache_valid_inclusive(st, t, path) ==
  IF path \notin DOMAIN st THEN FALSE
  ELSE LET file == st[path]
       IN  IF ~ file.parses THEN FALSE
           ELSE IF "ts" \notin DOMAIN file.obj THEN FALSE
           ELSE IF ~ file.obj.ts.iso THEN FALSE
           ELSE t - file.obj.ts.h <= CACHE_HOURS

\* cache_valid(path), evaluated on store st at time t
cache_valid(st, t, path) ==
  IF path \notin DOMAIN st THEN FALSE                      \* not path.exists()
  ELSE LET file == st[path]
       IN  IF ~ file.parses THEN FALSE                     \* JSONDecodeError
           ELSE IF "ts" \notin DOMAIN file.obj THEN FALSE  \* KeyError
           ELSE IF ~ file.obj.ts.iso THEN FALSE            \* ValueError
           ELSE t - file.obj.ts.h < CACHE_HOURS

(***************************************************************************)
(* The retrieval collaborator.  A response is an error (the GET or         *)
(* raise_for_status raised) or a page: its <title> text when it has one,   *)
(* and the markdown md() makes of its content region when it has one.      *)
(***************************************************************************)
HttpError(msg) == [kind |-> "error", msg |-> msg]

Page(title, main) == [kind |-> "html", title |-> title, main |-> main]

UntitledPage(main) == [kind |-> "html", main |-> main]

EmptyPage(title) == [kind |-> "html", title |-> title]

\* A cache hit that writes the record back with its timestamp reset.
CacheHit_renewing(st, cp) ==
  [ ret       |-> ("cached" :> TRUE) @@ st[cp].obj,
    store     |-> (cp :> json_dumps([st[cp].obj EXCEPT !.ts = isoformat(0)]))
                  @@ st,
    retrieved |-> FALSE ]

\* Lines 98-100: the stored record, tagged as served from the cache.  The
\* store is not written.
CacheHit(st, cp) ==
  [ ret       |-> ("cached" :> TRUE) @@ st[cp].obj,
    store     |-> st,
    retrieved |-> FALSE ]
\* A retrieval that on failure also removes the record it could not renew.
Retrieve_dropping(url, cp, st, t, resp) ==
  IF resp.kind = "error"
  THEN [ ret       |-> [error |-> resp.msg],
         store     |-> [ f \in DOMAIN st \ {cp} |-> st[f] ],
         retrieved |-> TRUE,
         resp      |-> resp ]
  ELSE IF "main" \notin DOMAIN resp
  THEN [ ret       |-> [error |-> "No content found"],
         store     |-> [ f \in DOMAIN st \ {cp} |-> st[f] ],
         retrieved |-> TRUE,
         resp      |-> resp ]
  ELSE LET title == IF "title" \in DOMAIN resp THEN resp.title
                    ELSE LastSegment(url)
           data  == [ url     |-> url,
                      title   |-> title,
                      content |-> Collapse(resp.main),
                      ts      |-> isoformat(t) ]
       IN  [ ret       |-> ("cached" :> FALSE) @@ data,
             store     |-> (cp :> json_dumps(data)) @@ st,
             retrieved |-> TRUE,
             resp      |-> resp ]

\* A retrieval that stores the markdown as md() gave it, not the collapsed
\* text it returns.
Retrieve_storing_raw(url, cp, st, t, resp) ==
  IF resp.kind = "error"
  THEN [ ret       |-> [error |-> resp.msg],
         store     |-> st,
         retrieved |-> TRUE,
         resp      |-> resp ]
  ELSE IF "main" \notin DOMAIN resp
  THEN [ ret       |-> [error |-> "No content found"],
         store     |-> st,
         retrieved |-> TRUE,
         resp      |-> resp ]
  ELSE LET title == IF "title" \in DOMAIN resp THEN resp.title
                    ELSE LastSegment(url)
           data  == [ url     |-> url,
                      title   |-> title,
                      content |-> Collapse(resp.main),
                      ts      |-> isoformat(t) ]
       IN  [ ret       |-> ("cached" :> FALSE) @@ data,
             store     |-> (cp :> json_dumps([data EXCEPT !.content = resp.main]))
                           @@ st,
             retrieved |-> TRUE,
             resp      |-> resp ]

\* Lines 102-124: the GET, the extraction of title and content, and the
\* write of the record.  A failed GET and a page without a content region
\* return an error dict and write nothing.
Retrieve(url, cp, st, t, resp) ==
  IF resp.kind = "error"
  THEN [ ret       |-> [error |-> resp.msg],
         store     |-> st,
         retrieved |-> TRUE,
         resp      |-> resp ]
  ELSE IF "main" \notin DOMAIN resp
  THEN [ ret       |-> [error |-> "No content found"],
         store     |-> st,
         retrieved |-> TRUE,
         resp      |-> resp ]
  ELSE LET title == IF "title" \in DOMAIN resp THEN resp.title
                    ELSE LastSegment(url)
           data  == [ url     |-> url,
                      title   |-> title,
                      content |-> Collapse(resp.main),
                      ts      |-> isoformat(t) ]
       IN  [ ret       |-> ("cached" :> FALSE) @@ data,
             store     |-> (cp :> json_dumps(data)) @@ st,
             retrieved |-> TRUE,
             resp      |-> resp ]

\* fetch that unlinks a record it does not serve before it retrieves.
fetch_evicting(url, refresh, st, t, resp) ==
  LET cp == cache_path(url)
  IN  IF ~ refresh /\ cache_valid(st, t, cp)
      THEN CacheHit(st, cp)
      ELSE Retrieve(url, cp, [q \in DOMAIN st \ {cp} |-> st[q]], t, resp)

\* fetch without the test of refresh: a valid record is served even when a
\* refresh is asked for.
fetch_ignoring_refresh(url, refresh, st, t, resp) ==
  LET cp == cache_path(url)
  IN  IF cache_valid(st, t, cp)
      THEN CacheHit(st, cp)
      ELSE Retrieve(url, cp, st, t, resp)

\* fetch(url, refresh) on store st at time t, the collaborator answering resp
\* if asked: what fetch returns, the store it leaves, whether it issued the
\* GET, and the response it then got.
fetch(url, refresh, st, t, resp) ==
  LET cp == cache_path(url)
  IN  IF ~ refresh /\ cache_valid(st, t, cp)
      THEN CacheHit(st, cp)
      ELSE Retrieve(url, cp, st, t, resp)

(***************************************************************************)
(* The tools.  Each takes the store st, the time t and the state of the    *)
(* web (a function from URL to response) and gives the text it returns     *)
(* (out, as a record of the parts of the text), the store it leaves, and   *)
(* the calls of fetch it made, in order.                                   *)
(***************************************************************************)
\* The normalization without lower().
NormalizeTopic_cased(topic) == Str(Replace(Replace(topic, "-", "_"), " ", "_"))

\* topic.lower().replace("-", "_").replace(" ", "_")
NormalizeTopic(topic) == Str(Replace(Replace(Lower(topic), "-", "_"), " ", "_"))

\* The call of fetch recorded: its URL, what it returned, whether it went to
\* the retrieval collaborator.
Call(url, r) == [url |-> url, ret |-> r.ret, retrieved |-> r.retrieved]

\* The same, with the response the collaborator gave when it was asked.
CallAndResponse(url, r) ==
  IF r.retrieved THEN ("resp" :> r.resp) @@ Call(url, r) ELSE Call(url, r)

\* The formatting of fetch's result by fetch_nvidia_docs (lines 149-153).  A
\* result without "title" or "content" makes the f-string raise KeyError.
FormatDoc(url, result) ==
  IF "error" \in DOMAIN result
  THEN [kind |-> "error", url |-> url, error |-> result.error]
  ELSE IF "title" \notin DOMAIN result
  THEN [kind |-> "raised", exc |-> "KeyError: 'title'"]
  ELSE IF "content" \notin DOMAIN result
  THEN [kind |-> "raised", exc |-> "KeyError: 'content'"]
  ELSE [ kind    |-> "doc",
         title   |-> result.title,
         url     |-> url,
         status  |-> IF result.cached THEN "cached" ELSE "fresh",
         content |-> result.content ]

\* The text for an unknown topic with the keys in alphabetical order.
UnknownTopic_sorted(norm) ==
  [ kind |-> "unknown_topic", topic |-> norm,
    available |-> << "connectx7", "doca", "dpdk_mlx5", "mlnx_ofed",
                     "mlx5_kernel", "rdma", "vma" >> ]

\* Lines 142-143: the text for a topic that is not in the registry, with
\* ", ".join(DOC_SOURCES.keys()).
UnknownTopic(norm) ==
  [kind |-> "unknown_topic", topic |-> norm, available |-> TopicKeys]

fetch_nvidia_docs(topic, page, refresh, st, t, web) ==
  LET norm == NormalizeTopic(topic)
  IN  IF ~ InRegistry(norm)
      THEN [out |-> UnknownTopic(norm), store |-> st, calls |-> << >>]
      ELSE LET url == UrlOf(Source(norm), page)
               r   == fetch(url, refresh, st, t, web[url])
           IN  [ out   |-> FormatDoc(url, r.ret),
                 store |-> r.store,
                 calls |-> << CallAndResponse(url, r) >> ]

\* The outer loop with break in the place of continue: the sweep ends at the
\* first topic that is not in the registry.
RECURSIVE SweepOrder_break(_)
SweepOrder_break(topics) ==
  IF topics = << >> THEN << >>
  ELSE LET topic == Head(topics)
       IN  IF ~ InRegistry(topic)
           THEN << >>
           ELSE LET src == Source(topic)
                IN  [ j \in 1..Len(src.pages) |->
                        [ src       |-> src.name,
                          page_path |-> src.pages[j],
                          url       |-> UrlOf(src, src.pages[j]) ] ]
                    \o SweepOrder_break(Tail(topics))

\* The pages search_nvidia_docs visits for a list of topics, in the order of
\* its two loops: topics not in the registry are passed over.
RECURSIVE SweepOrder(_)
SweepOrder(topics) ==
  IF topics = << >> THEN << >>
  ELSE LET topic == Head(topics)
       IN  IF ~ InRegistry(topic)
           THEN SweepOrder(Tail(topics))
           ELSE LET src == Source(topic)
                IN  [ j \in 1..Len(src.pages) |->
                        [ src       |-> src.name,
                          page_path |-> src.pages[j],
                          url       |-> UrlOf(src, src.pages[j]) ] ]
                    \o SweepOrder(Tail(topics))

\* Lines 185-186: the paragraphs that hold the query, when the content does.
\* if query_lower in content.lower():
\*     paras = [p for p in content.split("\n\n") if query_lower in p.lower()]
ParasOf(content, query_lower) ==
  IF ~ In(query_lower, Lower(content)) THEN << >>
  ELSE SelectSeq(Split(content), LAMBDA p : In(query_lower, Lower(p)))

\* Arguments of search_nvidia_docs: the queries.
Queries == { << "Q", "P" >>, << "I", "b" >>, << "z", "z" >> }

\* The contents a record of the model can hold.
Contents == { CollapseTable[s] : s \in RawDocs } \cup { << >> }

\* ParasOf over the contents and queries of the model, evaluated once.
ParasTable ==
  [ c \in Contents |-> [ q \in { Lower(x) : x \in Queries } |-> ParasOf(c, q) ] ]

MatchingParas(content, query_lower) ==
  IF content \in DOMAIN ParasTable /\ query_lower \in DOMAIN ParasTable[content]
  THEN ParasTable[content][query_lower]
  ELSE ParasOf(content, query_lower)

\* The loop body without paras[:2]: every matching paragraph is kept.
Collect_all_paras(results, pos, data, query_lower) ==
  IF "error" \in DOMAIN data THEN results
  ELSE LET content == IF "content" \in DOMAIN data THEN data.content ELSE << >>
           paras   == MatchingParas(content, query_lower)
       IN  IF paras = << >> THEN results
           ELSE Append(results,
                  [ src     |-> pos.src,
                    title   |-> IF "title" \in DOMAIN data
                                THEN data.title ELSE pos.page_path,
                    url     |-> pos.url,
                    matches |-> paras ])

\* The body of the inner loop for one fetched page (lines 182-193): the
\* results list after it.
Collect(results, pos, data, query_lower) ==
  IF "error" \in DOMAIN data THEN results
  ELSE LET content == IF "content" \in DOMAIN data THEN data.content ELSE << >>
           paras   == MatchingParas(content, query_lower)
       IN  IF paras = << >> THEN results
           ELSE Append(results,
                  [ src     |-> pos.src,
                    title   |-> IF "title" \in DOMAIN data
                                THEN data.title ELSE pos.page_path,
                    url     |-> pos.url,
                    matches |-> Prefix(paras, MaxParas) ])

\* The loop body with fetch(url, refresh=True): the sweep never serves from
\* the cache.
SweepStep_refreshing(order, query_lower, t, web, acc) ==
  LET pos == order[acc.i]
      r   == fetch(pos.url, TRUE, acc.store, t, web[pos.url])
  IN  [ i       |-> acc.i + 1,
        results |-> Collect(acc.results, pos, r.ret, query_lower),
        store   |-> r.store,
        calls   |-> Append(acc.calls, Call(pos.url, r)) ]

\* One pass of the inner loop body: the loop state (the position i in the
\* sweep, the results list, the store, the calls of fetch made) after the
\* page at position i is fetched and searched.
SweepStep(order, query_lower, t, web, acc) ==
  LET pos == order[acc.i]
      r   == fetch(pos.url, FALSE, acc.store, t, web[pos.url])
  IN  [ i       |-> acc.i + 1,
        results |-> Collect(acc.results, pos, r.ret, query_lower),
        store   |-> r.store,
        calls   |-> Append(acc.calls, Call(pos.url, r)) ]

\* The loops ended by the first page that fails, as if the error of fetch
\* were raised.
RECURSIVE Sweep_aborting(_, _, _, _, _)
Sweep_aborting(order, query_lower, t, web, acc) ==
  IF acc.i > Len(order) THEN acc
  ELSE IF acc.calls # << >> /\ "error" \in DOMAIN acc.calls[Len(acc.calls)].ret
  THEN acc
  ELSE Sweep_aborting(order, query_lower, t, web,
                      SweepStep(order, query_lower, t, web, acc))

\* The two loops of search_nvidia_docs (lines 175-193), run to their end.
RECURSIVE Sweep(_, _, _, _, _)
Sweep(order, query_lower, t, web, acc) ==
  IF acc.i > Len(order) THEN acc
  ELSE Sweep(order, query_lower, t, web,
             SweepStep(order, query_lower, t, web, acc))

\* Lines 195-206: the text made of the results list.
FormatResults(query, results) ==
  IF results = << >>
  THEN [kind |-> "no_results", query |-> query]
  ELSE LET shown == Prefix(results, MaxDocs)
       IN  [ kind   |-> "results",
             query  |-> query,
             blocks |-> [ k \in 1..Len(shown) |->
                            [ src    |-> shown[k].src,
                              title  |-> shown[k].title,
                              url    |-> shown[k].url,
                              quotes |-> [ m \in 1..Len(shown[k].matches) |->
                                             Truncated(shown[k].matches[m]) ] ] ] ]

\* The topics argument: None, or a list.
NoTopics == [given |-> FALSE]

TopicList(list) == [given |-> TRUE, list |-> list]

search_nvidia_docs(query, topics, st, t, web) ==
  LET list == IF topics.given THEN topics.list ELSE TopicKeys
      s    == Sweep(SweepOrder(list), Lower(query), t, web,
                    [i |-> 1, results |-> << >>, store |-> st, calls |-> << >>])
  IN  [ out   |-> FormatResults(query, s.results),
        store |-> s.store,
        calls |-> s.calls ]

\* A clear that removes, and counts, only the files that parse.
clear_doc_cache_parsed_only(st) ==
  LET kept == { p \in DOMAIN st : ~ st[p].parses }
  IN  [ out   |-> [ kind |-> "cleared",
                    count |-> Cardinality(DOMAIN st \ kept) ],
        store |-> [ p \in kept |-> st[p] ] ]

\* sum(1 for f in CACHE_DIR.glob("*.json") if f.unlink() or True)
clear_doc_cache(st) ==
  [ out   |-> [kind |-> "cleared", count |-> Cardinality(DOMAIN st)],
    store |-> << >> ]

(***************************************************************************)
(* The environment: the documents the web serves, and the arguments the    *)
(* tools are called with.                                                  *)
(***************************************************************************)
RdmaUrl == "https://docs.nvidia.com/networking/display/RDMAAwareProgrammingv17"

VmaUrl == "https://docs.nvidia.com/networking/display/VMAv98"

Cx7Url == "https://docs.nvidia.com/networking/display/ConnectX7VPI"

DpdkUrl == "https://doc.dpdk.org/guides/platform"

ModelUrls == DOMAIN CachePathTable

\* What the web serves when every site is up: the ConnectX-7 and VMA manuals
\* and the DPDK page hold "qp" (the DPDK page has no <title>), the other
\* registry pages do not, and a URL outside the registry is not found.
BaseResponse(u) ==
  IF u \notin RegistryUrls THEN HttpError("404 Not Found")
  ELSE IF u \in { UrlOf(Source("connectx7"), p) :
                    p \in { Source("connectx7").pages[j] : j \in 1..9 } }
  THEN Page("ConnectX-7", RawQP)
  ELSE IF u \in { UrlOf(Source("vma"), p) :
                    p \in { Source("vma").pages[j] : j \in 1..7 } }
  THEN Page("VMA", RawQP)
  ELSE IF u = DpdkUrl \o "/mlx5.html" THEN UntitledPage(RawQP)
  ELSE IF u = RdmaUrl THEN Page("RDMA", RawOne)
  ELSE Page("Docs", RawPlain)

\* The states of the web the model draws from.
WebIds ==
  { "up", "edited", "long", "rdma_down", "rdma_empty", "partial", "down",
    "dpdk_edited" }

\* The states of the web a sweep of the registry meets.
SweepWebIds == { "up", "long", "rdma_down", "partial", "down" }

WebResponse(id, u) ==
  CASE id = "up"         -> BaseResponse(u)
    [] id = "edited"     -> IF u = RdmaUrl THEN Page("RDMA, revised", RawQP)
                            ELSE BaseResponse(u)
    [] id = "long"       -> IF u = RdmaUrl THEN Page("RDMA", RawLong)
                            ELSE BaseResponse(u)
    [] id = "rdma_down"  -> IF u = RdmaUrl THEN HttpError("ConnectError")
                            ELSE BaseResponse(u)
    [] id = "rdma_empty" -> IF u = RdmaUrl THEN EmptyPage("RDMA")
                            ELSE BaseResponse(u)
    [] id = "partial"    -> IF u = VmaUrl \o "/Installation"
                            THEN HttpError("503 Service Unavailable")
                            ELSE IF u = VmaUrl \o "/API" THEN EmptyPage("VMA")
                            ELSE BaseResponse(u)
    [] id = "down"       -> HttpError("ConnectError")
    [] id = "dpdk_edited" -> IF u = DpdkUrl \o "/mlx5.html"
                             THEN Page("DPDK", RawPlain)
                             ELSE BaseResponse(u)

Webs == [ id \in WebIds |-> [ u \in ModelUrls |-> WebResponse(id, u) ] ]

\* Arguments of fetch_nvidia_docs.
FetchTopics ==
  { << "R", "D", "M", "A" >>,
    << "D", "p", "d", "k", "-", "m", "l", "x", "5" >>,
    << "F", "o", "o", " ", "B", "a", "r" >> }

RdmaTopics == { << "R", "D", "M", "A" >> }

FetchPages == { "", "/mlx5.html" }

\* The states of the web fetch_nvidia_docs meets.
FetchWebIds == { "up", "edited", "rdma_down" }

FailingWebIds == { "up", "rdma_down", "rdma_empty" }

\* Arguments of search_nvidia_docs: the topics.
TopicArgs ==
  { NoTopics,
    TopicList(<< "rdma", "foo", "vma" >>),
    TopicList(<< "rdma", "rdma" >>),
    TopicList(<< >>) }

\* The query of the short sweeps.
ShortQueries == { << "Q", "P" >> }

\* Topics arguments that sweep few pages.
ShortTopicArgs == { TopicList(<< "rdma", "foo", "dpdk_mlx5" >>) }

\* The states of the web a short sweep meets.
ShortWebIds == { "up", "rdma_down", "down" }

\* The cache file an outside writer damages.
TamperPaths == { cache_path(RdmaUrl) }

RecordFields == { "url", "title", "content", "ts" }

\* dict d without key k
Without(d, k) == [ f \in DOMAIN d \ {k} |-> d[f] ]

\* A well-formed record: a dict with the four fields and an ISO timestamp.
WellFormed(file) ==
  /\ file.parses
  /\ DOMAIN file.obj = RecordFields
  /\ file.obj.ts.iso

(***************************************************************************)
(* The state machine.  store is the cache directory, now the clock, last   *)
(* the step last taken: the tool called, its arguments, the text it        *)
(* returned, the calls of fetch it made, and the cache directory as it was *)
(* before the call.  written is a history variable: for each cache file,   *)
(* the document fetch returned when it last wrote the file, for as long as *)
(* the file has not been cleared or touched from outside.                  *)
(***************************************************************************)
\* The slots in which tool calls run side by side.
Slots == {1, 2}

\* A slot in which no tool call runs.
Idle ==
  [ pc |-> "idle", op |-> "none", order |-> << >>, k |-> 0,
    refresh |-> FALSE, query |-> << >>, topics |-> NoTopics, web |-> "up",
    results |-> << >>, calls |-> << >>, pending |-> {}, gets |-> 0,
    data |-> << >>, orphan |-> FALSE, snapshot |-> {}, count |-> 0,
    out |-> [kind |-> "none"] ]

\* The documents the calls of fetch of one tool call returned from a
\* successful retrieval (lines 121-124), by cache file, added to w.
Recorded(w, calls) ==
  LET fresh == { i \in DOMAIN calls :
                   calls[i].retrieved /\ "error" \notin DOMAIN calls[i].ret }
      paths == { cache_path(calls[i].url) : i \in fresh }
      doc(p) == LET i == CHOOSE k \in fresh :
                            /\ cache_path(calls[k].url) = p
                            /\ \A j \in fresh :
                                 cache_path(calls[j].url) = p => j <= k
                IN  Without(calls[i].ret, "cached")
  IN  [ p \in DOMAIN w \cup paths |-> IF p \in paths THEN doc(p) ELSE w[p] ]

Init ==
  /\ store = << >>
  /\ now = 0
  /\ last = [op |-> "init"]
  /\ written = << >>
  /\ inv = [i \in Slots |-> Idle]

FetchDoc(topics, ids) ==
  \E topic \in topics, page \in FetchPages, refresh \in BOOLEAN,
     id \in ids :
    LET r == fetch_nvidia_docs(topic, page, refresh, store, now, Webs[id])
    IN  /\ store' = r.store
        /\ last' = [ op |-> "fetch_doc", topic |-> topic, page |-> page,
                     refresh |-> refresh, out |-> r.out, calls |-> r.calls,
                     before |-> store, wbefore |-> written ]
        /\ written' = Recorded(written, r.calls)
        /\ UNCHANGED <<now, inv>>

SearchDocs(queries, topicArgs, ids) ==
  \E query \in queries, topics \in topicArgs, id \in ids :
    LET r == search_nvidia_docs(query, topics, store, now, Webs[id])
    IN  /\ store' = r.store
        /\ last' = [ op |-> "search", query |-> query, topics |-> topics,
                     out |-> r.out, calls |-> r.calls, before |-> store,
                     wbefore |-> written ]
        /\ written' = Recorded(written, r.calls)
        /\ UNCHANGED <<now, inv>>

ClearCache ==
  LET r == clear_doc_cache(store)
  IN  /\ store' = r.store
      /\ last' = [op |-> "clear", out |-> r.out, before |-> store]
      /\ written' = << >>
      /\ UNCHANGED <<now, inv>>

\* Time passes.
Tick ==
  \E d \in TickSteps :
    /\ now + d <= MaxTicks * d
    /\ now' = now + d
    /\ last' = [op |-> "tick"]
    /\ UNCHANGED <<store, written, inv>>

\* An outside writer (a crash in mid-write, a disk fault, another program)
\* leaves a file that does not parse.
Garble ==
  \E path \in TamperPaths :
    /\ store' = (path :> NotJson) @@ store
    /\ last' = [op |-> "garble"]
    /\ written' = Without(written, path)
    /\ UNCHANGED <<now, inv>>

\* An outside writer leaves a record without one of its fields, or with a
\* timestamp that is no ISO date.
Damage ==
  \E path \in TamperPaths :
    /\ path \in DOMAIN store
    /\ WellFormed(store[path])
    /\ \E file \in { json_dumps(Without(store[path].obj, f)) : f \in RecordFields }
                   \cup { json_dumps([store[path].obj EXCEPT !.ts = BadTs]) } :
         store' = (path :> file) @@ store
    /\ last' = [op |-> "damage"]
    /\ written' = Without(written, path)
    /\ UNCHANGED <<now, inv>>

\* The cache over time: single pages and short sweeps, the clock, and
\* damage to the cache from outside.
Next ==
  \/ FetchDoc(FetchTopics, FetchWebIds)
  \/ SearchDocs(ShortQueries, ShortTopicArgs, ShortWebIds)
  \/ ClearCache
  \/ Tick
  \/ Garble
  \/ Damage

Spec == Init /\ [][Next]_vars

\* Spellings of topics for fetch_nvidia_docs.
ResolveTopics ==
  { << "R", "D", "M", "A" >>,
    << "r", "d", "m", "a" >>,
    << "D", "p", "d", "k", "-", "m", "l", "x", "5" >>,
    << "d", "p", "d", "k", " ", "M", "L", "X", "5" >>,
    << "r", "d", "m", "a", " " >> }

\* Single pages under several spellings of their topics.
NextResolve ==
  \/ FetchDoc(ResolveTopics, FetchWebIds)
  \/ ClearCache
  \/ Tick

SpecResolve == Init /\ [][NextResolve]_vars

\* Sweeps of the whole registry, at one time of day.
NextSweep ==
  \/ FetchDoc(RdmaTopics, FailingWebIds)
  \/ SearchDocs(Queries, TopicArgs, SweepWebIds)
  \/ ClearCache

SpecSweep == Init /\ [][NextSweep]_vars

(***************************************************************************)
(* The tools step by step.  inv[i] is a tool call in progress: the tool    *)
(* (op), its arguments, the pages it visits (order) and the one it is at   *)
(* (k), the state of the web it meets (web), and where it stands (pc):     *)
(*   "check"  before `not refresh and cache_valid(cp)` (line 97),          *)
(*   "read"   before json.loads(cp.read_text()) (line 98),                 *)
(*   "get"    awaiting client.get (line 104),                              *)
(*   "write"  inside cp.write_text (line 122): the file is open and        *)
(*            truncated, the text not yet written,                         *)
(*   "unlink" inside the generator of clear_doc_cache (line 245),          *)
(*   "done"   returned, "raised" ended by an exception.                    *)
(* A step is one access to the cache directory or to the network, with the *)
(* computation that follows it up to the next access.                      *)
(***************************************************************************)
\* The GETs issued at once for the page the sweep is at and all the pages
\* after it.
Requests_ahead(r) == r.k .. Len(r.order)

\* The GETs a call of fetch issues when it does not serve from the cache
\* (lines 102-105), by the position in the sweep of the page asked for:
\* the one for the page it is at.
Requests(r) == { r.k }

\* The tool call after a fetch, with a sweep that ends as soon as it holds
\* MaxDocs matching documents.
AfterFetch_stopping(r, ret, retrieved) ==
  LET pos   == r.order[r.k]
      calls == Append(r.calls, [url |-> pos.url, ret |-> ret,
                                retrieved |-> retrieved])
      base  == [r EXCEPT !.calls = calls, !.data = << >>, !.orphan = FALSE]
  IN  IF r.op = "fetch_doc"
      THEN LET out == FormatDoc(pos.url, ret)
           IN  [base EXCEPT !.out = out,
                            !.pc = IF out.kind = "raised" THEN "raised"
                                   ELSE "done"]
      ELSE LET results == Collect(r.results, pos, ret, Lower(r.query))
           IN  IF r.k = Len(r.order) \/ Len(results) >= MaxDocs
               THEN [base EXCEPT !.results = results, !.pc = "done",
                                 !.out = FormatResults(r.query, results)]
               ELSE [base EXCEPT !.results = results, !.pc = "check",
                                 !.k = r.k + 1]

\* The tool call after the fetch of the page it is at returned ret (lines
\* 149-153 for fetch_nvidia_docs; lines 182-206 for search_nvidia_docs: the
\* loop body, then the next page or, after the last, the text).
AfterFetch(r, ret, retrieved) ==
  LET pos   == r.order[r.k]
      calls == Append(r.calls, [url |-> pos.url, ret |-> ret,
                                retrieved |-> retrieved])
      base  == [r EXCEPT !.calls = calls, !.data = << >>, !.orphan = FALSE]
  IN  IF r.op = "fetch_doc"
      THEN LET out == FormatDoc(pos.url, ret)
           IN  [base EXCEPT !.out = out,
                            !.pc = IF out.kind = "raised" THEN "raised"
                                   ELSE "done"]
      ELSE LET results == Collect(r.results, pos, ret, Lower(r.query))
           IN  IF r.k = Len(r.order)
               THEN [base EXCEPT !.results = results, !.pc = "done",
                                 !.out = FormatResults(r.query, results)]
               ELSE [base EXCEPT !.results = results, !.pc = "check",
                                 !.k = r.k + 1]

\* fetch_nvidia_docs is called (lines 140-147).
StartFetchDoc(i, topics, pages, ids) ==
  /\ inv[i].pc = "idle"
  /\ \E topic \in topics, page \in pages, refresh \in BOOLEAN, id \in ids :
       LET norm == NormalizeTopic(topic)
       IN  inv' = [inv EXCEPT ![i] =
             IF ~ InRegistry(norm)
             THEN [Idle EXCEPT !.op = "fetch_doc", !.pc = "done",
                               !.out = UnknownTopic(norm)]
             ELSE [Idle EXCEPT !.op = "fetch_doc", !.pc = "check",
                               !.refresh = refresh, !.web = id, !.k = 1,
                               !.order = << [ src |-> Source(norm).name,
                                              page_path |-> page,
                                              url |-> UrlOf(Source(norm), page) ] >>]]
  /\ UNCHANGED <<store, now, last, written>>

\* search_nvidia_docs is called (lines 169-180).
StartSearch(i, queries, topicArgs, ids) ==
  /\ inv[i].pc = "idle"
  /\ \E query \in queries, topics \in topicArgs, id \in ids :
       LET list  == IF topics.given THEN topics.list ELSE TopicKeys
           order == SweepOrder(list)
       IN  inv' = [inv EXCEPT ![i] =
             IF order = << >>
             THEN [Idle EXCEPT !.op = "search", !.pc = "done",
                               !.query = query, !.topics = topics,
                               !.out = FormatResults(query, << >>)]
             ELSE [Idle EXCEPT !.op = "search", !.pc = "check",
                               !.query = query, !.topics = topics,
                               !.web = id, !.k = 1, !.order = order]]
  /\ UNCHANGED <<store, now, last, written>>

\* clear_doc_cache is called: CACHE_DIR.glob("*.json") lists the directory
\* (line 245).
StartClear(i) ==
  /\ inv[i].pc = "idle"
  /\ inv' = [inv EXCEPT ![i] =
       IF DOMAIN store = {}
       THEN [Idle EXCEPT !.op = "clear", !.pc = "done",
                         !.out = [kind |-> "cleared", count |-> 0]]
       ELSE [Idle EXCEPT !.op = "clear", !.pc = "unlink",
                         !.snapshot = DOMAIN store]]
  /\ UNCHANGED <<store, now, last, written>>

\* Line 97: `if not refresh and cache_valid(cp)`; when it fails, the GET is
\* issued (lines 102-104).
Check(i) ==
  LET r == inv[i]
  IN  /\ r.pc = "check"
      /\ inv' = [inv EXCEPT ![i] =
           IF ~ r.refresh /\ cache_valid(store, now, cache_path(r.order[r.k].url))
           THEN [r EXCEPT !.pc = "read"]
           ELSE [r EXCEPT !.pc = "get",
                          !.pending = r.pending \cup Requests(r),
                          !.gets = r.gets + Cardinality(Requests(r))]]
      /\ UNCHANGED <<store, now, last, written>>

\* Lines 98-100: json.loads(cp.read_text()).  read_text raises
\* FileNotFoundError when the file is gone, json.loads raises
\* JSONDecodeError when it does not parse; fetch catches neither.
Read(i) ==
  LET r  == inv[i]
      cp == cache_path(r.order[r.k].url)
  IN  /\ r.pc = "read"
      /\ inv' = [inv EXCEPT ![i] =
           IF cp \notin DOMAIN store
           THEN [r EXCEPT !.pc = "raised",
                          !.out = [kind |-> "raised", exc |-> "FileNotFoundError"]]
           ELSE IF ~ store[cp].parses
           THEN [r EXCEPT !.pc = "raised",
                          !.out = [kind |-> "raised", exc |-> "JSONDecodeError"]]
           ELSE AfterFetch(r, ("cached" :> TRUE) @@ store[cp].obj, FALSE)]
      /\ UNCHANGED <<store, now, last, written>>

\* The GET returns (lines 104-119).  A failure and a page without content
\* region end the fetch with an error dict; otherwise the record is built
\* and write_text opens the cache file, which creates or truncates it
\* (lines 121-122).
Respond(i) ==
  LET r    == inv[i]
      url  == r.order[r.k].url
      cp   == cache_path(url)
      resp == Webs[r.web][url]
      got  == [r EXCEPT !.pending = r.pending \ {r.k}]
  IN  /\ r.pc = "get"
      /\ IF resp.kind = "error"
         THEN /\ inv' = [inv EXCEPT ![i] =
                   AfterFetch(got, [error |-> resp.msg], TRUE)]
              /\ UNCHANGED store
         ELSE IF "main" \notin DOMAIN resp
         THEN /\ inv' = [inv EXCEPT ![i] =
                   AfterFetch(got, [error |-> "No content found"], TRUE)]
              /\ UNCHANGED store
         ELSE /\ inv' = [inv EXCEPT ![i] =
                   [got EXCEPT !.pc = "write", !.orphan = FALSE,
                               !.data = [ url     |-> url,
                                          title   |-> IF "title" \in DOMAIN resp
                                                      THEN resp.title
                                                      ELSE LastSegment(url),
                                          content |-> Collapse(resp.main),
                                          ts      |-> isoformat(now) ]]]
              /\ store' = (cp :> EmptyFile) @@ store
      /\ UNCHANGED <<now, last, written>>

\* write_text writes the text and closes the file (line 122); fetch returns
\* the record (lines 123-124).  The text written to a file that was
\* unlinked after it was opened is lost with the file.
Write(i) ==
  LET r  == inv[i]
      cp == cache_path(r.order[r.k].url)
  IN  /\ r.pc = "write"
      /\ store' = IF r.orphan THEN store
                  ELSE (cp :> Overlay(store[cp], r.data)) @@ store
      /\ inv' = [inv EXCEPT ![i] =
                   AfterFetch(r, ("cached" :> FALSE) @@ r.data, TRUE)]
      /\ UNCHANGED <<now, last, written>>

\* One turn of the generator of line 245: f.unlink() on the next file of
\* the listing.  unlink raises FileNotFoundError when the file is gone.  A
\* file that a call of write_text holds open goes on as an unlinked file.
Unlink(i) ==
  LET r == inv[i]
  IN  /\ r.pc = "unlink"
      /\ LET f    == CHOOSE p \in r.snapshot : TRUE
             rest == r.snapshot \ {f}
         IN  IF f \notin DOMAIN store
             THEN /\ inv' = [inv EXCEPT ![i] =
                       [r EXCEPT !.pc = "raised",
                                 !.out = [kind |-> "raised",
                                          exc |-> "FileNotFoundError"]]]
                  /\ UNCHANGED store
             ELSE /\ store' = Without(store, f)
                  /\ inv' = [ j \in Slots |->
                       IF j = i
                       THEN IF rest = {}
                            THEN [r EXCEPT !.pc = "done", !.snapshot = rest,
                                           !.count = r.count + 1,
                                           !.out = [kind |-> "cleared",
                                                    count |-> r.count + 1]]
                            ELSE [r EXCEPT !.snapshot = rest,
                                           !.count = r.count + 1]
                       ELSE IF /\ inv[j].pc = "write"
                               /\ cache_path(inv[j].order[inv[j].k].url) = f
                            THEN [inv[j] EXCEPT !.orphan = TRUE]
                            ELSE inv[j] ]
      /\ UNCHANGED <<now, last, written>>

\* The result of a tool call is taken; the slot is free for the next call.
Reset(i) ==
  /\ inv[i].pc \in {"done", "raised"}
  /\ inv' = [inv EXCEPT ![i] = Idle]
  /\ UNCHANGED <<store, now, last, written>>

\* Arguments and web states of the tool calls that run side by side, all on
\* the one page of the DPDK topic.
RaceTopics == { << "D", "p", "d", "k", "-", "m", "l", "x", "5" >> }

RacePages == { "/mlx5.html" }

RaceTopicArgs ==
  { TopicList(<< "dpdk_mlx5" >>), TopicList(<< "dpdk_mlx5", "dpdk_mlx5" >>) }

RaceWebIds == { "up", "dpdk_edited", "down" }

\* Tool calls side by side, interleaved at every access to the cache
\* directory and to the network.
NextRace ==
  \E i \in Slots :
    \/ StartFetchDoc(i, RaceTopics, RacePages, RaceWebIds)
    \/ StartSearch(i, ShortQueries, RaceTopicArgs, RaceWebIds)
    \/ StartClear(i)
    \/ Check(i)
    \/ Read(i)
    \/ Respond(i)
    \/ Write(i)
    \/ Unlink(i)
    \/ Reset(i)

SpecRace == Init /\ [][NextRace]_vars

\* Arguments and web states of a sweep that runs alone: the whole registry
\* or one topic named twice.
LiveTopicArgs == { NoTopics, TopicList(<< "rdma", "rdma" >>) }

LiveWebIds == { "up", "partial", "down" }

\* One search_nvidia_docs at a time, step by step.
NextLive ==
  \/ StartSearch(1, ShortQueries, LiveTopicArgs, LiveWebIds)
  \/ Check(1)
  \/ Read(1)
  \/ Respond(1)
  \/ Write(1)
  \/ Reset(1)

\* The event loop resumes a coroutine that can go on: the steps of fetch
\* that touch only the cache directory are taken once they are enabled, and
\* so is the return of a GET, every retrieval being taken to return.  The
\* client is free to call the tool or not.
SpecLive ==
  /\ Init
  /\ [][NextLive]_vars
  /\ WF_vars(Check(1))
  /\ WF_vars(Read(1))
  /\ WF_vars(Respond(1))
  /\ WF_vars(Write(1))

(***************************************************************************)
(* Properties.  They are stated on last, the step last taken, against the  *)
(* cache directory as it was before that step (last.before) and as it is   *)
(* after it (store).                                                       *)
(***************************************************************************)
IsTool(l) == l.op \in {"fetch_doc", "search"}

\* A call of fetch_nvidia_docs with refresh=True.
Forced(l) == l.op = "fetch_doc" /\ l.refresh

\* The calls of fetch, by position, that a step made on a URL it had not
\* fetched earlier in the same step: the record such a call finds is the one
\* of last.before.
FirstVisits(l) ==
  { i \in DOMAIN l.calls :
      \A j \in 1..(i - 1) : l.calls[j].url # l.calls[i].url }

\* The record a successful retrieval of url at time t makes of response resp.
NewDocument(url, resp, t) ==
  [ url     |-> url,
    title   |-> IF "title" \in DOMAIN resp THEN resp.title
                ELSE LastSegment(url),
    content |-> Collapse(resp.main),
    ts      |-> [iso |-> TRUE, h |-> t] ]

\* The retrieval gave a page with a content region.
Succeeded(resp) == resp.kind = "html" /\ "main" \in DOMAIN resp

\* C1: a fetch without forced refresh of a URL whose stored record passes
\* the validity check returns exactly that record tagged as served from the
\* cache, does not go to the retrieval collaborator, and leaves the record
\* (for fetch_nvidia_docs, the whole store) as it was.
C1_CacheHit ==
  (IsTool(last) /\ ~ Forced(last)) =>
    \A i \in FirstVisits(last) :
      LET c == last.calls[i]
          p == cache_path(c.url)
      IN  cache_valid(last.before, now, p) =>
            /\ c.ret = ("cached" :> TRUE) @@ last.before[p].obj
            /\ ~ c.retrieved
            /\ p \in DOMAIN store /\ store[p] = last.before[p]
            /\ last.op = "fetch_doc" => store = last.before

\* A record written at an earlier hour is served from the cache, unchanged.
C1_Witness ==
  /\ last.op = "fetch_doc" /\ ~ last.refresh /\ Len(last.calls) = 1
  /\ LET p == cache_path(last.calls[1].url)
     IN  /\ cache_valid(last.before, now, p)
         /\ last.before[p].obj.ts.h < now
         /\ store[p].obj.ts.h < now
  /\ last.out.kind = "doc" /\ last.out.status = "cached"
  /\ ~ last.calls[1].retrieved

\* C2 as stated: a forced refresh goes to the retrieval collaborator and
\* afterwards the stored record is the new document, stamped with the call
\* time and returned tagged not-from-cache.
C2_Original ==
  (Forced(last) /\ Len(last.calls) = 1) =>
    LET c == last.calls[1]
        p == cache_path(c.url)
    IN  /\ c.retrieved
        /\ p \in DOMAIN store
        /\ WellFormed(store[p])
        /\ store[p].obj.ts.h = now
        /\ c.ret = ("cached" :> FALSE) @@ store[p].obj

\* C2: a forced refresh goes to the retrieval collaborator whatever the
\* stored record; when the retrieval succeeds and the page has a content
\* region, the stored record afterwards is the new document with the call
\* time as its timestamp, and it is returned tagged not-from-cache.
C2_ForcedRefresh ==
  (Forced(last) /\ Len(last.calls) = 1) =>
    LET c == last.calls[1]
        p == cache_path(c.url)
    IN  /\ c.retrieved
        /\ Succeeded(c.resp) =>
             /\ p \in DOMAIN store
             /\ store[p] = [ parses |-> TRUE,
                             obj |-> NewDocument(c.url, c.resp, now) ]
             /\ c.ret = ("cached" :> FALSE) @@ store[p].obj
             /\ last.out.kind = "doc" /\ last.out.status = "fresh"

\* A forced refresh replaces a record that was still valid by a later
\* edition of the page.
C2_Witness ==
  /\ Forced(last) /\ Len(last.calls) = 1
  /\ LET c == last.calls[1]
         p == cache_path(c.url)
     IN  /\ cache_valid(last.before, now, p)
         /\ WellFormed(last.before[p])
         /\ Succeeded(c.resp)
         /\ store[p].obj.content # last.before[p].obj.content
         /\ store[p].obj.ts.h = now
         /\ last.before[p].obj.ts.h < now

\* C3: for a well-formed record the validity check passes exactly when less
\* than 24 hours have passed since its timestamp; from the 24th hour on a
\* fetch goes to the retrieval collaborator instead of returning the record.
C3_TimeToLive ==
  /\ \A p \in DOMAIN store :
       WellFormed(store[p]) =>
         (cache_valid(store, now, p) <=> now - store[p].obj.ts.h < 24)
  /\ (IsTool(last) /\ ~ Forced(last)) =>
       \A i \in FirstVisits(last) :
         LET c == last.calls[i]
             p == cache_path(c.url)
         IN  (p \in DOMAIN last.before /\ WellFormed(last.before[p])) =>
               /\ c.retrieved <=> now - last.before[p].obj.ts.h >= 24
               /\ c.retrieved =>
                    \/ "error" \in DOMAIN c.ret
                    \/ /\ c.ret.cached = FALSE
                       /\ c.ret.ts.h = now

\* A record exactly 24 hours old is not served: the page is retrieved.
C3_Witness ==
  /\ IsTool(last) /\ ~ Forced(last)
  /\ \E i \in FirstVisits(last) :
       LET c == last.calls[i]
           p == cache_path(c.url)
       IN  /\ p \in DOMAIN last.before
           /\ WellFormed(last.before[p])
           /\ now - last.before[p].obj.ts.h = 24
           /\ c.retrieved
  /\ \E p \in DOMAIN store :
       /\ WellFormed(store[p])
       /\ now - store[p].obj.ts.h = 12
       /\ cache_valid(store, now, p)

\* C4: clear_doc_cache deletes every record, valid or expired or damaged,
\* and reports the number of records the store held; afterwards no URL has
\* a valid record, and a fetch on an empty store goes to the retrieval
\* collaborator.
C4_ClearAll ==
  /\ last.op = "clear" =>
       /\ last.out.kind = "cleared"
       /\ last.out.count = Cardinality(DOMAIN last.before)
       /\ DOMAIN store = {}
       /\ \A u \in ModelUrls : ~ cache_valid(store, now, cache_path(u))
  /\ (IsTool(last) /\ DOMAIN last.before = {}) =>
       \A i \in FirstVisits(last) : last.calls[i].retrieved

\* A clear of a store that held valid, expired and unparseable records.
C4_Witness ==
  /\ last.op = "clear"
  /\ \E p1, p2, p3 \in DOMAIN last.before :
       /\ cache_valid(last.before, now, p1) /\ WellFormed(last.before[p1])
       /\ WellFormed(last.before[p2])
       /\ now - last.before[p2].obj.ts.h >= 24
       /\ ~ last.before[p3].parses
  /\ last.out.count >= 3
  /\ DOMAIN store = {}

\* C5 as stated: a record that does not parse or lacks one of its four
\* fields fails the validity check, a fetch of its URL goes to the
\* retrieval collaborator as if no record existed, and no tool call raises.
C5_CorruptIsMiss ==
  /\ \A p \in DOMAIN store :
       ~ WellFormed(store[p]) => ~ cache_valid(store, now, p)
  /\ IsTool(last) =>
       /\ last.out.kind # "raised"
       /\ \A i \in FirstVisits(last) :
            LET c == last.calls[i]
                p == cache_path(c.url)
            IN  (p \in DOMAIN last.before /\ ~ WellFormed(last.before[p]))
                  => c.retrieved

\* C7: fetch_nvidia_docs with a topic that is not a registry key after
\* normalization returns the unknown-topic text listing the registry's
\* topics in registry order, makes no call of fetch, and leaves the store
\* as it was.
C7_UnknownTopic ==
  (last.op = "fetch_doc" /\ ~ InRegistry(NormalizeTopic(last.topic))) =>
    /\ last.out.kind = "unknown_topic"
    /\ last.out.available = << "connectx7", "doca", "vma", "rdma",
                               "mlnx_ofed", "mlx5_kernel", "dpdk_mlx5" >>
    /\ last.calls = << >>
    /\ store = last.before

\* An unknown topic, asked with a page and a forced refresh, over a store
\* that holds records.
C7_Witness ==
  /\ last.op = "fetch_doc"
  /\ last.topic = << "F", "o", "o", " ", "B", "a", "r" >>
  /\ last.refresh /\ last.page # ""
  /\ last.out.kind = "unknown_topic" /\ last.out.topic = "foo_bar"
  /\ DOMAIN last.before # {}
  /\ store = last.before

\* C11: after a fetch that retrieved a URL and returned document d, a
\* fetch of that URL without forced refresh, made less than 24 hours after
\* d's timestamp and with no clear and no later write of the record in
\* between, does not retrieve and returns d's url, title, content and
\* timestamp, tagged as served from the cache.
C11_RoundTrip ==
  (IsTool(last) /\ ~ Forced(last)) =>
    \A i \in FirstVisits(last) :
      LET c == last.calls[i]
          p == cache_path(c.url)
      IN  (p \in DOMAIN last.wbefore /\ now - last.wbefore[p].ts.h < 24) =>
            /\ ~ c.retrieved
            /\ c.ret = ("cached" :> TRUE) @@ last.wbefore[p]
            /\ last.wbefore[p].url = c.url

\* A page retrieved at an earlier hour, in its revised edition, is read
\* back as it was returned then.
C11_Witness ==
  /\ last.op = "fetch_doc" /\ ~ last.refresh /\ Len(last.calls) = 1
  /\ LET c == last.calls[1]
         p == cache_path(c.url)
     IN  /\ p \in DOMAIN last.wbefore
         /\ last.wbefore[p].ts.h < now
         /\ now - last.wbefore[p].ts.h < 24
         /\ last.wbefore[p].title = "RDMA, revised"
         /\ c.ret.cached
         /\ c.ret.title = "RDMA, revised"
         /\ c.ret.content = last.wbefore[p].content
         /\ c.ret.ts = last.wbefore[p].ts

\* The cause a failed retrieval is reported with.
Cause(resp) ==
  IF resp.kind = "error" THEN resp.msg ELSE "No content found"

\* The topics a search is asked to sweep.
Wanted(topics) ==
  IF topics.given THEN topics.list
  ELSE << "connectx7", "doca", "vma", "rdma", "mlnx_ofed", "mlx5_kernel",
          "dpdk_mlx5" >>

\* The URLs of a topic's pages in registry order; none for a topic the
\* registry does not have.
PageUrls(topic) ==
  IF \E i \in DOMAIN DOC_SOURCES : DOC_SOURCES[i].topic = topic
  THEN LET src == DOC_SOURCES[CHOOSE i \in DOMAIN DOC_SOURCES :
                                DOC_SOURCES[i].topic = topic]
       IN  [ j \in DOMAIN src.pages |-> src.base \o src.pages[j] ]
  ELSE << >>

\* The sweep order: topics in argument order, pages in registry order.
RECURSIVE SweepUrls(_)
SweepUrls(list) ==
  IF list = << >> THEN << >>
  ELSE PageUrls(Head(list)) \o SweepUrls(Tail(list))

\* The URLs a step fetched, in order.
CallUrls(l) == [ i \in DOMAIN l.calls |-> l.calls[i].url ]

\* Paragraph p holds query q, case-insensitively.
QueryIn(p, q) ==
  \E k \in 0..(Len(p) - Len(q)) :
    \A j \in 1..Len(q) : LowerChar(p[k + j]) = LowerChar(q[j])

\* The paragraphs of a fetched document that hold the query, in document
\* order; none for a page that failed.
MatchingParagraphs(ret, q) ==
  IF "error" \in DOMAIN ret \/ "content" \notin DOMAIN ret THEN << >>
  ELSE SelectSeq(Split(ret.content), LAMBDA p : QueryIn(p, q))

\* The positions in the sweep of the matching documents.
Hits(l) ==
  { i \in DOMAIN l.calls : MatchingParagraphs(l.calls[i].ret, l.query) # << >> }

\* The k-th matching document in sweep order.
NthHit(l, k) ==
  LET hits == Hits(l)
  IN  CHOOSE i \in hits : Cardinality({ j \in hits : j <= i }) = k

\* The documents a search reports; none when it reports no results.
Blocks(l) == IF l.out.kind = "results" THEN l.out.blocks ELSE << >>

\* A paragraph as the report shows it.
Excerpt(p) ==
  IF Len(p) > 500 THEN SubSeq(p, 1, 500) \o << ".", ".", "." >> ELSE p

Least(a, b) == IF a < b THEN a ELSE b

C8_TopicRestricted ==
  last.op = "search" =>
    LET list  == Wanted(last.topics)
        swept == { last.calls[i].url : i \in DOMAIN last.calls }
    IN  /\ swept = { u \in RegistryUrls :
                       \E a \in DOMAIN DOC_SOURCES, b \in DOMAIN list :
                         /\ list[b] = DOC_SOURCES[a].topic
                         /\ \E j \in DOMAIN DOC_SOURCES[a].pages :
                              u = DOC_SOURCES[a].base \o DOC_SOURCES[a].pages[j] }
        /\ \A p \in DOMAIN store \cup DOMAIN last.before :
             (\/ p \notin DOMAIN last.before
              \/ p \notin DOMAIN store
              \/ store[p] # last.before[p])
             => p \in { cache_path(u) : u \in swept }
        /\ last.out.kind \in {"results", "no_results"}
        /\ ~ last.topics.given =>
             /\ swept = RegistryUrls
             /\ Len(last.calls) = 33

\* A sweep of two registry topics and an unknown one over an empty store:
\* the eleven pages of the two topics are fetched and stored, no other.
C8_Witness ==
  /\ last.op = "search"
  /\ last.topics = [given |-> TRUE, list |-> << "rdma", "foo", "vma" >>]
  /\ Len(last.calls) = 11
  /\ DOMAIN last.before = {}
  /\ Cardinality(DOMAIN store) = 11
  /\ last.out.kind = "results"

\* C9 as stated: at most 10 documents are reported, the first 10 matching
\* documents in sweep order; of each, at most 2 paragraphs, the first 2
\* matching paragraphs in document order; and every paragraph reported
\* holds the query.
C9_Original ==
  last.op = "search" =>
    LET n == Cardinality(Hits(last))
    IN  /\ CallUrls(last) = SweepUrls(Wanted(last.topics))
        /\ Len(Blocks(last)) = Least(n, 10)
        /\ \A k \in DOMAIN Blocks(last) :
             LET c     == last.calls[NthHit(last, k)]
                 paras == MatchingParagraphs(c.ret, last.query)
                 block == Blocks(last)[k]
             IN  /\ block.url = c.url
                 /\ Len(block.quotes) = Least(Len(paras), 2)
                 /\ \A m \in DOMAIN block.quotes :
                      /\ block.quotes[m] = paras[m]
                      /\ QueryIn(block.quotes[m], last.query)

\* C9: at most 10 documents are reported, the first 10 matching documents
\* in sweep order; of each, at most 2 paragraphs, the first 2 matching
\* paragraphs in document order, each shown whole when it has at most 500
\* characters and otherwise as its first 500 characters and "..."; every
\* paragraph shown whole holds the query.
C9_ResultBounds ==
  last.op = "search" =>
    LET n == Cardinality(Hits(last))
    IN  /\ CallUrls(last) = SweepUrls(Wanted(last.topics))
        /\ Len(Blocks(last)) <= 10
        /\ Len(Blocks(last)) = Least(n, 10)
        /\ \A k \in DOMAIN Blocks(last) :
             LET c     == last.calls[NthHit(last, k)]
                 paras == MatchingParagraphs(c.ret, last.query)
                 block == Blocks(last)[k]
             IN  /\ block.url = c.url
                 /\ Len(block.quotes) <= 2
                 /\ Len(block.quotes) = Least(Len(paras), 2)
                 /\ \A m \in DOMAIN block.quotes :
                      /\ block.quotes[m] = Excerpt(paras[m])
                      /\ Len(paras[m]) <= 500 =>
                           QueryIn(block.quotes[m], last.query)

\* A sweep with more than 10 matching documents, the first of them with
\* more than 2 matching paragraphs: 10 are reported, with 2 paragraphs.
C9_Witness ==
  /\ last.op = "search"
  /\ Cardinality(Hits(last)) > 10
  /\ Len(Blocks(last)) = 10
  /\ Len(MatchingParagraphs(last.calls[NthHit(last, 1)].ret, last.query)) > 2
  /\ Len(Blocks(last)[1].quotes) = 2

\* The distinct URLs of the matching documents of a sweep.
HitUrls(l) == { l.calls[i].url : i \in Hits(l) }

\* C10 as stated: a query held by exactly one paragraph of exactly one
\* swept page gives exactly one match, which contains that paragraph; a
\* query no swept page holds gives the "no results" text.
C10_Original ==
  last.op = "search" =>
    LET hits == Hits(last)
    IN  /\ ( /\ Cardinality(HitUrls(last)) = 1
             /\ \A i \in hits :
                  Len(MatchingParagraphs(last.calls[i].ret, last.query)) = 1 )
           => LET c    == last.calls[CHOOSE i \in hits : TRUE]
                  para == MatchingParagraphs(c.ret, last.query)[1]
              IN  /\ Len(Blocks(last)) = 1
                  /\ \E m \in DOMAIN Blocks(last)[1].quotes :
                       In(para, Blocks(last)[1].quotes[m])
        /\ hits = {} => last.out.kind = "no_results"

\* C10: a query held by exactly one paragraph of exactly one page visit of
\* the sweep (a topic named twice has its pages visited twice) gives exactly
\* one match, for that page, holding that paragraph: whole when it has at
\* most 500 characters, otherwise its first 500 characters and "..."; a
\* query no swept page holds, every page failing included, gives the "no
\* results" text.
C10_SingleMatch ==
  last.op = "search" =>
    LET hits == Hits(last)
    IN  /\ ( /\ Cardinality(hits) = 1
             /\ \A i \in hits :
                  Len(MatchingParagraphs(last.calls[i].ret, last.query)) = 1 )
           => LET c    == last.calls[CHOOSE i \in hits : TRUE]
                  para == MatchingParagraphs(c.ret, last.query)[1]
              IN  /\ last.out.kind = "results"
                  /\ Len(last.out.blocks) = 1
                  /\ last.out.blocks[1].url = c.url
                  /\ last.out.blocks[1].quotes = << Excerpt(para) >>
        /\ hits = {} =>
             last.out = [kind |-> "no_results", query |-> last.query]

\* A sweep of the whole registry in which one paragraph of one page holds
\* the query, a paragraph of more than 500 characters: one match is
\* reported, with the paragraph cut.
C10_Witness ==
  /\ last.op = "search"
  /\ ~ last.topics.given
  /\ Cardinality(Hits(last)) = 1
  /\ last.out.kind = "results"
  /\ Len(last.out.blocks) = 1
  /\ Len(last.out.blocks[1].quotes) = 1
  /\ Len(last.out.blocks[1].quotes[1]) = 503

\* The cache file of the page tool call r is at.
PathAt(r) == cache_path(r.order[r.k].url)

\* The documents tool call r got from successful retrievals of url.
Retrieved(r, url) ==
  { r.calls[k].ret : k \in { j \in DOMAIN r.calls :
                               /\ r.calls[j].url = url
                               /\ r.calls[j].retrieved
                               /\ "error" \notin DOMAIN r.calls[j].ret } }

\* C12 as stated: a call of fetch that is about to test or to read the
\* record of its URL, at whatever point of another call's write of that
\* record, finds a complete record or none, never an empty or partly
\* written file.
C12_AtomicWrite ==
  \A i \in Slots :
    inv[i].pc \in {"check", "read"} =>
      (PathAt(inv[i]) \in DOMAIN store => WellFormed(store[PathAt(inv[i])]))

\* C13 as stated: under every interleaving of tool calls on the shared
\* cache directory, no call ends with an unhandled exception.
C13_NoAbort == \A i \in Slots : inv[i].pc # "raised"

\* C15 as stated: when two tool calls have both retrieved the same URL with
\* success and both have returned, the store holds a well-formed record for
\* that URL whose url, title and content are those one of the two wrote.
C15_LastWriterWins ==
  \A u \in { DpdkUrl \o "/mlx5.html" } :
    ( \A i \in Slots : inv[i].pc = "done" /\ Retrieved(inv[i], u) # {} ) =>
      /\ cache_path(u) \in DOMAIN store
      /\ WellFormed(store[cache_path(u)])
      /\ \E i \in Slots : \E d \in Retrieved(inv[i], u) :
           /\ store[cache_path(u)].obj.url = d.url
           /\ store[cache_path(u)].obj.title = d.title
           /\ store[cache_path(u)].obj.content = d.content

\* Topic t names registry key key: the same characters, whatever the case,
\* with a space or a hyphen for the key's "_".
Names(t, key) ==
  Str([ i \in DOMAIN t |->
          IF t[i] \in {" ", "-"} THEN "_" ELSE LowerChar(t[i]) ]) = key

\* A call of fetch_nvidia_docs for a registry topic fetched exactly base +
\* page, and its result follows what the retrieval collaborator gave.
ResolvedRight(l) ==
  \A a \in DOMAIN DOC_SOURCES :
    Names(l.topic, DOC_SOURCES[a].topic) =>
      /\ Len(l.calls) = 1
      /\ l.calls[1].url = DOC_SOURCES[a].base \o l.page
      /\ l.calls[1].retrieved =>
           IF Succeeded(l.calls[1].resp)
           THEN /\ l.out.kind = "doc"
                /\ l.out.url = l.calls[1].url
                /\ l.out.status = "fresh"
           ELSE l.out = [ kind |-> "error", url |-> l.calls[1].url,
                          error |-> Cause(l.calls[1].resp) ]

\* Two calls of fetch_nvidia_docs, one after the other, whose topics name
\* the same registry key and whose pages are equal: when the first stored
\* the page and the second does not force a refresh, the second is served
\* that record.
SameRecord(l1, l2) ==
  ( /\ l1.op = "fetch_doc" /\ l2.op = "fetch_doc"
    /\ l1.page = l2.page
    /\ \E a \in DOMAIN DOC_SOURCES :
         /\ Names(l1.topic, DOC_SOURCES[a].topic)
         /\ Names(l2.topic, DOC_SOURCES[a].topic)
    /\ l1.out.kind = "doc" /\ l1.out.status = "fresh"
    /\ ~ l2.refresh )
  => /\ ~ l2.calls[1].retrieved
     /\ l2.calls[1].url = l1.calls[1].url
     /\ l2.out = [l1.out EXCEPT !.status = "cached"]

\* C14: fetch_nvidia_docs finds the topic whatever its case, with spaces
\* and hyphens read as "_", and fetches exactly base + page; two spellings
\* of one topic resolve to the same URL and the same cache record; the call
\* succeeds or fails as the retrieval collaborator does for that URL.
C14_TopicResolution ==
  [][ /\ last'.op = "fetch_doc" => ResolvedRight(last')
      /\ SameRecord(last, last') ]_vars

\* "dpdk MLX5" is served the record of the DPDK page.
C14_Witness ==
  /\ last.op = "fetch_doc"
  /\ last.topic = << "d", "p", "d", "k", " ", "M", "L", "X", "5" >>
  /\ last.page = "/mlx5.html"
  /\ last.calls[1].url = "https://doc.dpdk.org/guides/platform/mlx5.html"
  /\ last.out.kind = "doc" /\ last.out.status = "cached"

\* The calls of fetch of tool call r that went to the retrieval
\* collaborator.
Retrievals(r) == { j \in DOMAIN r.calls : r.calls[j].retrieved }

\* C16 as stated: a tool call has at most one retrieval in flight, the fetch
\* of a page starts only after the fetch of the page before it has
\* returned, and a URL whose retrieval failed is not retrieved again by the
\* same tool call.
C16_Original ==
  \A i \in Slots :
    LET r == inv[i]
    IN  /\ Cardinality(r.pending) <= 1
        /\ r.pc \in {"check", "read", "get", "write"} => Len(r.calls) = r.k - 1
        /\ \A j \in Retrievals(r) :
             "error" \in DOMAIN r.calls[j].ret =>
               /\ \A k \in Retrievals(r) :
                    k > j => r.calls[k].url # r.calls[j].url
               /\ \A k \in r.pending : r.order[k].url # r.calls[j].url

\* C16: a tool call has at most one retrieval in flight, the fetch of a
\* page starts only after the fetch of the page before it has returned, and
\* the retrieval collaborator is asked at most once for each visit of a
\* page, failed or not: a page is asked for again only when the sweep visits
\* it again, its topic being named again in the topics argument.
C16_Sequential ==
  \A i \in Slots :
    LET r == inv[i]
    IN  /\ Cardinality(r.pending) <= 1
        /\ r.pending # {} => (r.pc = "get" /\ r.pending = {r.k})
        /\ r.pc \in {"check", "read", "get", "write"} => Len(r.calls) = r.k - 1
        /\ r.pc = "get" => r.pending = {r.k}
        /\ r.gets = Cardinality(Retrievals(r))
                    + (IF r.pc \in {"get", "write"} THEN 1 ELSE 0)
        /\ r.gets <= r.k
        /\ r.pc = "done" /\ r.op # "clear" => Len(r.calls) = Len(r.order)

\* A sweep that names the DPDK topic twice while the site is down: the page
\* is asked for on each of the two visits, once each.
C16_Witness ==
  \E i \in Slots :
    /\ inv[i].op = "search" /\ inv[i].pc = "done"
    /\ Len(inv[i].calls) = 2
    /\ inv[i].gets = 2
    /\ \A j \in {1, 2} : "error" \in DOMAIN inv[i].calls[j].ret
    /\ inv[i].out.kind = "no_results"

\* The step that leads to a state with l as its last step wrote the record
\* of cache file p anew: a call of fetch retrieved the page with success,
\* and the file holds what it returned.
Overwrote(l, st, p) ==
  /\ IsTool(l)
  /\ \E i \in DOMAIN l.calls :
       /\ cache_path(l.calls[i].url) = p
       /\ l.calls[i].retrieved
       /\ "error" \notin DOMAIN l.calls[i].ret
       /\ st[p] = [ parses |-> TRUE,
                    obj |-> [ f \in DOMAIN l.calls[i].ret \ {"cached"} |->
                                l.calls[i].ret[f] ] ]

\* C17: through every fetch_nvidia_docs, every search_nvidia_docs and every
\* passage of time a stored record stays in the store, as it was or written
\* anew whole by a successful fetch of its URL; the number of stored records
\* decreases in no step but a clear_doc_cache.
C17_Lifecycle ==
  [][ /\ last'.op \in {"fetch_doc", "search", "tick"} =>
           \A p \in DOMAIN store :
             /\ p \in DOMAIN store'
             /\ store'[p] = store[p] \/ Overwrote(last', store', p)
      /\ Cardinality(DOMAIN store') < Cardinality(DOMAIN store) =>
           last'.op = "clear" ]_vars

\* An expired record whose page could not be retrieved again is still in
\* the store, as it was.
C17_Witness ==
  /\ last.op = "fetch_doc" /\ ~ last.refresh /\ Len(last.calls) = 1
  /\ last.out.kind = "error"
  /\ LET p == cache_path(last.calls[1].url)
     IN  /\ p \in DOMAIN last.before
         /\ WellFormed(last.before[p])
         /\ now - last.before[p].obj.ts.h >= 24
         /\ p \in DOMAIN store
         /\ store[p] = last.before[p]

\* What one call of fetch without forced refresh does to the cache, the
\* same for fetch_nvidia_docs and for each page of search_nvidia_docs: a
\* valid record is served and left as it is, with no retrieval; otherwise
\* the page is retrieved, and the record is written when the retrieval
\* succeeds and left as it was when it fails.  l is the step, st the store
\* after it, t its time, i the position of the call in l.calls.
FetchEffect(l, st, t, i) ==
  LET c == l.calls[i]
      p == cache_path(c.url)
  IN  IF cache_valid(l.before, t, p)
      THEN /\ ~ c.retrieved
           /\ c.ret.cached
           /\ p \in DOMAIN st /\ st[p] = l.before[p]
      ELSE /\ c.retrieved
           /\ IF "error" \in DOMAIN c.ret
              THEN \/ p \notin DOMAIN l.before /\ p \notin DOMAIN st
                   \/ /\ p \in DOMAIN l.before /\ p \in DOMAIN st
                      /\ st[p] = l.before[p]
              ELSE /\ ~ c.ret.cached
                   /\ c.ret.url = c.url /\ c.ret.ts = [iso |-> TRUE, h |-> t]
                   /\ p \in DOMAIN st
                   /\ st[p] = [ parses |-> TRUE,
                                obj |-> [ f \in DOMAIN c.ret \ {"cached"} |->
                                            c.ret[f] ] ]

\* Every call of fetch of step l had the effect of FetchEffect, and no file
\* but those of the pages fetched was touched.
SinglePath(l, st, t) ==
  (IsTool(l) /\ ~ Forced(l)) =>
    /\ \A i \in FirstVisits(l) : FetchEffect(l, st, t, i)
    /\ \A p \in (DOMAIN st \cup DOMAIN l.before)
                  \ { cache_path(l.calls[i].url) : i \in DOMAIN l.calls } :
         p \in DOMAIN st /\ p \in DOMAIN l.before /\ st[p] = l.before[p]

\* Step l2 is a sweep of the same topics as the sweep l1 just before it.
SecondSweep(l1, l2) ==
  /\ l1.op = "search" /\ l2.op = "search"
  /\ l1.topics = l2.topics

C19_FailureKeepsCache ==
  IsTool(last) =>
    /\ \A i \in FirstVisits(last) :
         LET c == last.calls[i]
             p == cache_path(c.url)
         IN  (c.retrieved /\ "error" \in DOMAIN c.ret) =>
               \/ p \notin DOMAIN last.before /\ p \notin DOMAIN store
               \/ /\ p \in DOMAIN last.before /\ p \in DOMAIN store
                  /\ store[p] = last.before[p]
    /\ (last.op = "fetch_doc" /\ last.out.kind = "error") =>
         store = last.before /\ written = last.wbefore

\* A forced refresh of a page with a valid record fails, and the record is
\* still there, unchanged.
C19_Witness ==
  /\ Forced(last) /\ Len(last.calls) = 1
  /\ LET c == last.calls[1]
         p == cache_path(c.url)
     IN  /\ cache_valid(last.before, now, p)
         /\ c.retrieved /\ "error" \in DOMAIN c.ret
         /\ last.out.kind = "error"
         /\ cache_valid(store, now, p)
         /\ store[p] = last.before[p]

\* The sweep in slot 1 is over and fetched every page of every registered
\* topic named in its argument, once for each time the topic is named, in
\* order.
SweptAll(r) ==
  /\ r.pc = "done"
  /\ [ i \in DOMAIN r.calls |-> r.calls[i].url ] = SweepUrls(Wanted(r.topics))
  /\ r.gets = Cardinality({ i \in DOMAIN r.calls : r.calls[i].retrieved })

\* C20: with every retrieval returning, a search_nvidia_docs that was called
\* returns, and when it returns it has called fetch exactly once for each
\* page of each registered topic named in its topics argument, as often as
\* the topic is named; it sweeps on after the tenth matching document, and
\* the list it collected is cut to ten only in the text it returns.
C20_FullSweep ==
  /\ [](inv[1].pc # "raised")
  /\ []((inv[1].op = "search" /\ inv[1].pc = "done") =>
          /\ SweptAll(inv[1])
          /\ inv[1].out = FormatResults(inv[1].query, inv[1].results)
          /\ Len(inv[1].results) =
               Cardinality({ i \in DOMAIN inv[1].calls :
                 MatchingParagraphs(inv[1].calls[i].ret, inv[1].query) # << >> }))
  /\ (inv[1].op = "search" /\ inv[1].pc # "idle")
       ~> (inv[1].op = "search" /\ SweptAll(inv[1]))

\* A sweep of the whole registry returned with more than ten matching
\* documents collected and ten of them in its text.
C20_Witness ==
  /\ inv[1].op = "search" /\ inv[1].pc = "done"
  /\ ~ inv[1].topics.given
  /\ Len(inv[1].calls) = Len(SweepOrder(TopicKeys))
  /\ Len(inv[1].results) > MaxDocs
  /\ inv[1].out.kind = "results"
  /\ Len(inv[1].out.blocks) = MaxDocs

====
